---- MODULE Spec2Model ----
(***************************************************************************)
(* A model of src/transaction.js: the Transaction class of a UTXO-style    *)
(* ledger (constructor, spendOutput, isValid, addFee, totalOutput).        *)
(*                                                                         *)
(* utils.js (hash, calcAddress, verifySignature) is not part of src/; the  *)
(* three primitives are modelled from their interface contracts: a         *)
(* signature is the pair (signing key, signed message), an address is a    *)
(* digest of the key, and hash is a deterministic digest of the            *)
(* serialized content.                                                     *)
(***************************************************************************)
EXTENDS Integers, Sequences, FiniteSets, TLC

VARIABLES
    tx,       \* the Transaction object: [id, inputs, outputs]
    utxos,    \* the UTXO index handed to isValid: txID -> sequence of outputs
    op,       \* the last method called on tx ("new" right after construction)
    arg,      \* the argument of the last call (NoArg when it has none)
    ret,      \* what the last call returned or threw
    tx0,      \* history: tx as the constructor left it
    fees      \* history: the amounts passed to addFee so far, in order

vars == <<tx, utxos, op, arg, ret, tx0, fees>>

----------------------------------------------------------------------------
(* Bounds of the model. *)

MaxAmount == 2
MaxOutputs == 2
MaxInputs == 2
MaxFee == 2
MaxFeeCalls == 2

----------------------------------------------------------------------------
(* Data model. *)

Keys == {"K1", "K2"}

\* utils.calcAddress: the address is a digest of the public key.
calcAddress(pubKey) ==
    CASE pubKey = "K1" -> "A1"
      [] pubKey = "K2" -> "A2"

Addresses == {calcAddress(k) : k \in Keys}

Amounts == 1..MaxAmount

\* An output {amount, address}.
Output == [amount : Amounts, address : Addresses]

\* A signature made with the private half of `signer` over `msg`.
Signature == [signer : Keys, msg : Output]

\* utils.verifySignature(pubKey, message, sig).
verifySignature(pubKey, message, sig) ==
    sig.signer = pubKey /\ sig.msg = message

\* Transaction ids are digests.
TxIDs == {0, 1}

\* outputIndex is a 0-based array index.
Indexes == {0, 1}

\* An input {txID, outputIndex, pubKey, sig}.
Input == [txID : TxIDs, outputIndex : Indexes, pubKey : Keys, sig : Signature]

SeqsUpTo(S, n) == UNION {[1..k -> S] : k \in 0..n}

KeyCode(k) == IF k = "K1" THEN 1 ELSE 2

OutputCode(o) == 3 * o.amount + KeyCode(IF o.address = "A1" THEN "K1" ELSE "K2")

InputCode(i) ==
    i.txID + 3 * i.outputIndex + 5 * KeyCode(i.pubKey)
      + 7 * KeyCode(i.sig.signer) + 11 * OutputCode(i.sig.msg)

\* JSON.stringify({inputs, outputs}): the fields in a fixed order.
stringify(inputs, outputs) ==
    <<Len(inputs)>> \o [i \in 1..Len(inputs) |-> InputCode(inputs[i])]
      \o <<Len(outputs)>> \o [i \in 1..Len(outputs) |-> OutputCode(outputs[i])]

RECURSIVE hashFrom(_, _)
hashFrom(h, str) ==
    IF str = <<>> THEN h
    ELSE hashFrom((31 * h + Head(str)) % Cardinality(TxIDs), Tail(str))

\* utils.hash: a deterministic digest of the serialized content.
hash(str) == hashFrom(1, str)

----------------------------------------------------------------------------
(* The Transaction class. *)

\* constructor({outputs, inputs=[]})
Transaction(outputs, inputs) ==
    [inputs |-> inputs, outputs |-> outputs, id |-> hash(stringify(inputs, outputs))]

RECURSIVE sumAmounts(_)
sumAmounts(outs) ==
    IF outs = <<>> THEN 0 ELSE Head(outs).amount + sumAmounts(Tail(outs))

\* totalOutput(): outputs.reduce((acc, {amount}) => acc + amount, 0)
totalOutput(t) == sumAmounts(t.outputs)

Returned(v) == [kind |-> "return", value |-> v]
Thrown(k) == [kind |-> k, value |-> 0]

\* A variant of spendOutput that reads the output before comparing ids.
spendOutput_lookupFirst(t, input) ==
    IF input.outputIndex + 1 \notin DOMAIN t.outputs
    THEN Thrown("TypeError")
    ELSE LET output == t.outputs[input.outputIndex + 1] IN
         IF input.txID # t.id
         THEN Thrown("ReferenceMismatch")
         ELSE IF calcAddress(input.pubKey) # output.address
         THEN Thrown("AddressMismatch")
         ELSE IF ~verifySignature(input.pubKey, output, input.sig)
         THEN Thrown("InvalidSignature")
         ELSE Returned(output.amount)

\* spendOutput(input): what the call returns or throws.
spendOutput(t, input) ==
    IF input.txID # t.id
    THEN Thrown("ReferenceMismatch")
    ELSE IF input.outputIndex + 1 \notin DOMAIN t.outputs
    THEN Thrown("TypeError")
    ELSE LET output == t.outputs[input.outputIndex + 1] IN
         IF calcAddress(input.pubKey) # output.address
         THEN Thrown("AddressMismatch")
         ELSE IF ~verifySignature(input.pubKey, output, input.sig)
         THEN Thrown("InvalidSignature")
         ELSE Returned(output.amount)

\* A variant of isValid that starts from "valid" and clears the flag on an
\* input no UTXO matches, so that no input means valid.
isValid_vacuous(t, u) ==
    LET found ==
          \A i \in DOMAIN t.inputs :
            \E utxo \in DOMAIN u :
              \E j \in DOMAIN u[utxo] :
                verifySignature(t.inputs[i].pubKey, u[utxo][j], t.inputs[i].sig)
    IN [ret |-> Returned(found), tx |-> t, utxos |-> u]

\* A variant of isValid that empties the entry of a UTXO it matched.
isValid_consuming(t, u) ==
    LET hit(utxo) ==
          \E i \in DOMAIN t.inputs :
            \E j \in DOMAIN u[utxo] :
              verifySignature(t.inputs[i].pubKey, u[utxo][j], t.inputs[i].sig)
        found == \E utxo \in DOMAIN u : hit(utxo)
    IN [ret |-> Returned(found), tx |-> t,
        utxos |-> [utxo \in DOMAIN u |-> IF hit(utxo) THEN <<>> ELSE u[utxo]]]

\* isValid(utxos): the returned flag together with the objects the call
\* leaves behind (it writes to neither).
isValid(t, u) ==
    LET found ==
          \E i \in DOMAIN t.inputs :
            \E utxo \in DOMAIN u :
              \E j \in DOMAIN u[utxo] :
                verifySignature(t.inputs[i].pubKey, u[utxo][j], t.inputs[i].sig)
    IN [ret |-> Returned(found), tx |-> t, utxos |-> u]

\* A variant of addFee that recomputes the id from the new content.
addFee_rehash(t, amount) ==
    IF t.outputs = <<>>
    THEN [ret |-> Thrown("TypeError"), tx |-> t]
    ELSE LET outs == [t.outputs EXCEPT ![1].amount = @ + amount] IN
         [ret |-> Returned("undefined"), tx |-> Transaction(outs, t.inputs)]

\* addFee(amount): this.outputs[0].amount += amount
addFee(t, amount) ==
    IF t.outputs = <<>>
    THEN [ret |-> Thrown("TypeError"), tx |-> t]
    ELSE [ret |-> Returned("undefined"),
          tx |-> [t EXCEPT !.outputs[1].amount = @ + amount]]

----------------------------------------------------------------------------
(* The state machine. *)

NoArg == "none"
NoUtxos == <<>>

\* A UTXO index: some transaction ids, each with its unspent outputs.
UTXOIndexes ==
    UNION {[S -> SeqsUpTo(Output, 1)] : S \in SUBSET TxIDs}

Fresh(t, u) ==
    /\ tx = t
    /\ tx0 = t
    /\ utxos = u
    /\ op = "new"
    /\ arg = NoArg
    /\ ret = Returned("undefined")
    /\ fees = <<>>

IsValid ==
    LET r == isValid(tx, utxos) IN
    /\ tx' = r.tx
    /\ utxos' = r.utxos
    /\ op' = "isValid"
    /\ arg' = NoArg
    /\ ret' = r.ret
    /\ UNCHANGED <<tx0, fees>>

SpendOutput ==
    \E input \in Input :
        /\ op' = "spendOutput"
        /\ arg' = input
        /\ ret' = spendOutput(tx, input)
        /\ UNCHANGED <<tx, utxos, tx0, fees>>

AddFee ==
    \E amount \in 1..MaxFee :
        LET r == addFee(tx, amount) IN
        /\ Len(fees) < MaxFeeCalls
        /\ tx' = r.tx
        /\ op' = "addFee"
        /\ arg' = amount
        /\ ret' = r.ret
        /\ fees' = IF r.ret.kind = "return" THEN Append(fees, amount) ELSE fees
        /\ UNCHANGED <<utxos, tx0>>

TotalOutput ==
    /\ op' = "totalOutput"
    /\ arg' = NoArg
    /\ ret' = Returned(totalOutput(tx))
    /\ UNCHANGED <<tx, utxos, tx0, fees>>

\* isValid on arbitrary transactions and UTXO indexes.
InitValid ==
    \E outs \in SeqsUpTo(Output, 1), ins \in SeqsUpTo(Input, MaxInputs),
       u \in UTXOIndexes :
        Fresh(Transaction(outs, ins), u)

NextValid == IsValid

SpecValid == InitValid /\ [][NextValid]_vars

\* isValid on transactions with at most one input.
InitSingle ==
    \E outs \in SeqsUpTo(Output, 1), ins \in SeqsUpTo(Input, 1),
       u \in UTXOIndexes :
        Fresh(Transaction(outs, ins), u)

NextSingle == IsValid

SpecSingle == InitSingle /\ [][NextSingle]_vars

\* spendOutput on a transaction's outputs.  spendOutput reads the id and the
\* outputs only; the transaction spent here is one without inputs.
InitSpend ==
    \E outs \in SeqsUpTo(Output, MaxOutputs) :
        Fresh(Transaction(outs, <<>>), NoUtxos)

NextSpend == SpendOutput

SpecSpend == InitSpend /\ [][NextSpend]_vars

\* Fee injection.
InitFee ==
    \E outs \in SeqsUpTo(Output, MaxOutputs), ins \in SeqsUpTo(Input, 1) :
        Fresh(Transaction(outs, ins), NoUtxos)

NextFee == AddFee \/ TotalOutput

SpecFee == InitFee /\ [][NextFee]_vars

\* A coinbase transaction: no inputs.
InitCoinbase ==
    \E outs \in SeqsUpTo(Output, MaxOutputs), u \in UTXOIndexes :
        Fresh(Transaction(outs, <<>>), u)

NextCoinbase == AddFee \/ TotalOutput \/ IsValid

SpecCoinbase == InitCoinbase /\ [][NextCoinbase]_vars

----------------------------------------------------------------------------
(* The validity contract that the claims about isValid refer to: every     *)
(* input is checked against the UTXO at its own (txID, outputIndex).       *)

Resolves(u, inp) ==
    /\ inp.txID \in DOMAIN u
    /\ inp.outputIndex + 1 \in DOMAIN u[inp.txID]

Referenced(u, inp) == u[inp.txID][inp.outputIndex + 1]

SameReference(a, b) == a.txID = b.txID /\ a.outputIndex = b.outputIndex

InputPasses(t, u, i) ==
    LET inp == t.inputs[i] IN
    /\ \A j \in 1..(i - 1) : ~SameReference(t.inputs[j], inp)
    /\ Resolves(u, inp)
    /\ calcAddress(inp.pubKey) = Referenced(u, inp).address
    /\ verifySignature(inp.pubKey, Referenced(u, inp), inp.sig)

RECURSIVE inputTotal(_, _)
inputTotal(u, ins) ==
    IF ins = <<>> THEN 0
    ELSE Referenced(u, Head(ins)).amount + inputTotal(u, Tail(ins))

AllResolve(t, u) == \A i \in DOMAIN t.inputs : Resolves(u, t.inputs[i])

Contract(t, u) ==
    /\ t.inputs # <<>>
    /\ \A i \in DOMAIN t.inputs : InputPasses(t, u, i)
    /\ inputTotal(u, t.inputs) >= totalOutput(t)

RECURSIVE sumSeq(_)
sumSeq(q) == IF q = <<>> THEN 0 ELSE Head(q) + sumSeq(Tail(q))

AfterIsValid == op = "isValid"

AfterSpendOutput == op = "spendOutput"

----------------------------------------------------------------------------
(* Claims. *)

\* C1: isValid(utxos) returns true if and only if the input list is
\* non-empty, every input passes all per-input checks against the UTXO at
\* its own (txID, outputIndex), and the referenced amounts sum to at least
\* totalOutput().
C1_IsValidIffContract ==
    AfterIsValid => (ret.value = Contract(tx, utxos))

\* C2: if some input's txID is not a key of utxos, isValid returns false.
C2_MissingTxIDRejected ==
    (AfterIsValid /\ \E i \in DOMAIN tx.inputs : tx.inputs[i].txID \notin DOMAIN utxos)
        => (ret.value = FALSE)

\* C3: if for some input calcAddress(pubKey) differs from the address of the
\* output at utxos[txID][outputIndex], isValid returns false.
C3_AddressMismatchRejected ==
    (AfterIsValid /\ \E i \in DOMAIN tx.inputs :
        /\ Resolves(utxos, tx.inputs[i])
        /\ calcAddress(tx.inputs[i].pubKey) # Referenced(utxos, tx.inputs[i]).address)
        => (ret.value = FALSE)

\* C4: if the amounts of the UTXOs the inputs reference sum to less than
\* totalOutput(), isValid returns false.
C4_InsufficientFundsRejected ==
    (AfterIsValid /\ AllResolve(tx, utxos)
        /\ inputTotal(utxos, tx.inputs) < totalOutput(tx))
        => (ret.value = FALSE)

\* C5: if two inputs reference the same (txID, outputIndex), isValid returns
\* false.
C5_DoubleSpendRejected ==
    (AfterIsValid /\ \E i, j \in DOMAIN tx.inputs :
        i < j /\ SameReference(tx.inputs[i], tx.inputs[j]))
        => (ret.value = FALSE)

\* C6: for a transaction without inputs isValid returns false, whatever the
\* UTXO index holds.
C6_EmptyInputsRejected ==
    (AfterIsValid /\ tx.inputs = <<>>) => (ret = Returned(FALSE))

\* C6 witness: isValid has run on an input-less transaction against a
\* non-empty UTXO index whose outputs alone total at least totalOutput().
C6_Witness ==
    /\ AfterIsValid
    /\ tx.inputs = <<>>
    /\ tx.outputs # <<>>
    /\ \E k \in DOMAIN utxos : sumAmounts(utxos[k]) >= totalOutput(tx)

\* C7: spendOutput throws the reference-mismatch error whenever input.txID
\* differs from the transaction's id, whatever outputIndex, pubKey and sig.
C7_IdCheckedFirst ==
    (AfterSpendOutput /\ arg.txID # tx.id) => (ret = Thrown("ReferenceMismatch"))

\* C7 witness: spendOutput was called with a foreign txID, an outputIndex
\* outside the outputs and a signature made with another key.
C7_Witness ==
    /\ AfterSpendOutput
    /\ arg.txID # tx.id
    /\ tx.outputs # <<>>
    /\ arg.outputIndex + 1 \notin DOMAIN tx.outputs
    /\ arg.sig.signer # arg.pubKey
    /\ ret = Thrown("ReferenceMismatch")

\* C8: with input.txID equal to the id and outputIndex outside the outputs,
\* spendOutput fails with the explicit IndexOutOfRange error.
C8_IndexOutOfRangeSignalled ==
    (AfterSpendOutput /\ arg.txID = tx.id
        /\ arg.outputIndex + 1 \notin DOMAIN tx.outputs)
        => (ret.kind = "IndexOutOfRange")

\* C9: for a transaction with at least one output, after any sequence of
\* addFee calls the id is the one computed at construction, totalOutput()
\* has grown by exactly the sum of the amounts added, and only
\* outputs[0].amount has changed.
C9_AddFeeFrame ==
    tx0.outputs # <<>> =>
        /\ tx.id = tx0.id
        /\ tx.id = hash(stringify(tx0.inputs, tx0.outputs))
        /\ totalOutput(tx) = totalOutput(tx0) + sumSeq(fees)
        /\ (op = "totalOutput" => ret = Returned(totalOutput(tx0) + sumSeq(fees)))
        /\ tx.inputs = tx0.inputs
        /\ Len(tx.outputs) = Len(tx0.outputs)
        /\ \A k \in DOMAIN tx.outputs :
            /\ tx.outputs[k].address = tx0.outputs[k].address
            /\ k > 1 => tx.outputs[k] = tx0.outputs[k]
        /\ tx.outputs[1].amount = tx0.outputs[1].amount + sumSeq(fees)

\* C9 witness: two fees were added to a transaction with an input and two
\* outputs.
C9_Witness ==
    /\ Len(fees) >= 2
    /\ Len(tx.outputs) >= 2
    /\ tx.inputs # <<>>
    /\ tx.outputs[1].amount > tx0.outputs[1].amount

\* C10: isValid leaves the UTXO index and the transaction as they were, so
\* calling it again on them returns the same result.
C10_IsValidPure ==
    [][op' = "isValid" =>
        /\ utxos' = utxos
        /\ tx' = tx
        /\ isValid(tx', utxos').ret = ret']_vars

\* C10 witness: isValid has returned true for a transaction with inputs
\* against a non-empty UTXO index.
C10_Witness ==
    /\ AfterIsValid
    /\ ret = Returned(TRUE)
    /\ tx.inputs # <<>>
    /\ \E k \in DOMAIN utxos : utxos[k] # <<>>

====
